---- MODULE Spec2Model ----
(***************************************************************************)
(* Model of the pi-review extension (src/index.ts): the multi-stage review *)
(* suite state machine, its context filter, its agent_end / input handlers *)
(* and the /review command handler, run against a model of the hosting     *)
(* agent session (history, agent loop, pending commands).                   *)
(*                                                                         *)
(* Conventions                                                             *)
(*  - positions stored in suiteBoundaryCount are 0-based as in the source;  *)
(*    TLA+ sequences are 1-based, so messages[i] of the source is           *)
(*    messages[i + 1] here.                                                 *)
(*  - a text is a sequence of one-character strings.                        *)
(*  - the session history keeps role and identity of each message only:    *)
(*    the context handler reads nothing but .role; the messages of the     *)
(*    running agent turn (event.messages of agent_end) keep their content. *)
(***************************************************************************)
EXTENDS Integers, Sequences, FiniteSets, Bags, TLC

\* ------------------------------------------------------------------ bounds
MaxMsgs == 9        \* length of the session history
MaxTmpl == 3        \* tokens of a prompt template in SpecPrompt
MaxEvents == 2      \* environment events of one session that are counted: a run
                    \* started, a text received, a tool call made, a command
                    \* issued while the agent is busy or another command is
                    \* suspended at an await
MaxArg == 3         \* characters of a text typed as a PR number in SpecTarget

\* --------------------------------------------------------------- pipeline
Stages ==
  << [kind |-> "review", id |-> "overall", promptName |-> "review-overall", label |-> "Overall"],
     [kind |-> "review", id |-> "linus", promptName |-> "review-linus", label |-> "Linus"],
     [kind |-> "review", id |-> "staff", promptName |-> "review-staff", label |-> "Staff"],
     [kind |-> "synthesize", id |-> "synthesize", promptName |-> "review-synthesize", label |-> "Synthesis"] >>

\* DEFAULT_SUITE_STAGES[i] ?? null
NoStage == [kind |-> "none", id |-> "", promptName |-> "", label |-> ""]

StageAt(i) == IF i + 1 \in DOMAIN Stages THEN Stages[i + 1] ELSE NoStage

\* ------------------------------------------------------------------ texts
\* const x = v; F(x): the value is computed once, then used
Once(F(_), v) == CHOOSE r \in {F(x) : x \in {v}} : TRUE

WS == {" ", "\n"}

STAGE_DONE_MARKER == <<"[", "]">>

RECURSIVE TrimStart(_)
TrimStart(s) ==
  IF s = <<>> THEN <<>>
  ELSE IF Head(s) \in WS THEN TrimStart(Tail(s)) ELSE s

RECURSIVE TrimEnd(_)
TrimEnd(s) ==
  IF s = <<>> THEN <<>>
  ELSE IF s[Len(s)] \in WS THEN TrimEnd(SubSeq(s, 1, Len(s) - 1)) ELSE s

\* String.prototype.trim
Trim(s) == TrimEnd(TrimStart(s))

StartsWith(s, p) == Len(s) >= Len(p) /\ SubSeq(s, 1, Len(p)) = p

\* String.prototype.replaceAll(pat, ""): leftmost non-overlapping
\* occurrences are removed in one pass; the result is not scanned again.
RECURSIVE RemoveAll(_, _)
RemoveAll(s, pat) ==
  IF s = <<>> THEN <<>>
  ELSE IF StartsWith(s, pat) THEN RemoveAll(SubSeq(s, Len(pat) + 1, Len(s)), pat)
  ELSE <<Head(s)>> \o RemoveAll(Tail(s), pat)

\* Array.prototype.join("\n") over a sequence of texts
RECURSIVE JoinNL(_)
JoinNL(ts) ==
  IF ts = <<>> THEN <<>>
  ELSE IF Len(ts) = 1 THEN ts[1]
  ELSE ts[1] \o <<"\n">> \o JoinNL(Tail(ts))

RECURSIVE SelectParts(_)
SelectParts(parts) ==
  IF parts = <<>> THEN <<>>
  ELSE IF Head(parts).type = "text" THEN <<Head(parts).text>> \o SelectParts(Tail(parts))
  ELSE SelectParts(Tail(parts))

RECURSIVE FilterRole(_, _)
FilterRole(msgs, role) ==
  IF msgs = <<>> THEN <<>>
  ELSE IF Head(msgs).role = role THEN <<Head(msgs)>> \o FilterRole(Tail(msgs), role)
  ELSE FilterRole(Tail(msgs), role)

getLastAssistantText(msgs) ==
  Once(LAMBDA assistantMessages :
         IF assistantMessages = <<>> THEN <<>>
         ELSE Once(LAMBDA text : Trim(text),
                   JoinNL(SelectParts(assistantMessages[Len(assistantMessages)].content))),
       FilterRole(msgs, "assistant"))

\* ---------------------------------------------------------------- targets
\* suiteTarget = null
NoTarget == [kind |-> "none", prNumber |-> 0, baseSha |-> ""]

Worktree == [kind |-> "worktree", prNumber |-> 0, baseSha |-> ""]

Staged == [kind |-> "staged", prNumber |-> 0, baseSha |-> ""]

Pr(n) == [kind |-> "pr", prNumber |-> n, baseSha |-> ""]

Recent(sha) == [kind |-> "recent", prNumber |-> 0, baseSha |-> sha]

\* what the pickers and the argument samples can produce
PrNumbers == {7}

Shas == {"abc"}

AllTargets == {Worktree, Staged} \cup {Pr(n) : n \in PrNumbers} \cup {Recent(h) : h \in Shas}

\* the targets chosen in the pickers in Spec
Targets == {Staged}

\* ---------------------------------------------------------------- prompts
\* A prompt or a template is a sequence of tokens: "lit" is a stretch of
\* literal non-blank template text, "ph" the placeholder {{s}}, "char" one
\* character of a report body; the others are pieces of generated text.
Tok(t, s, n) == [t |-> t, s |-> s, n |-> n]

Lit == Tok("lit", "", 0)

Ph(k) == Tok("ph", k, 0)

Chars(text) == [i \in 1..Len(text) |-> Tok("char", text[i], 0)]

\* prompts/<name>.md after stripFrontmatter
PackagedTemplate(promptName) ==
  IF promptName = "review-synthesize" THEN <<Lit, Ph("REPORTS"), Lit>>
  ELSE <<Ph("SCOPE"), Lit>>

\* contents of a user override file after stripFrontmatter
UserTemplates == {<<>>, <<Lit>>}

\* the prompt files found on disk at one call of loadPromptText
FileStates ==
  [userExists : {FALSE}, userTmpl : {<<>>}, pkgExists : BOOLEAN]
    \cup [userExists : {TRUE}, userTmpl : UserTemplates, pkgExists : {TRUE}]

loadPromptText(promptName, fs) ==
  IF fs.userExists THEN fs.userTmpl
  ELSE IF fs.pkgExists THEN PackagedTemplate(promptName)
  ELSE <<>>

\* replace in the place of replaceAll: the first occurrence only
RECURSIVE renderVarsFirst(_, _, _)
renderVarsFirst(template, k, v) ==
  IF template = <<>> THEN <<>>
  ELSE IF Head(template) = Ph(k) THEN v \o Tail(template)
  ELSE <<Head(template)>> \o renderVarsFirst(Tail(template), k, v)

RECURSIVE renderVars(_, _, _)
renderVars(template, k, v) ==
  IF template = <<>> THEN <<>>
  ELSE IF Head(template) = Ph(k) THEN v \o renderVars(Tail(template), k, v)
  ELSE <<Head(template)>> \o renderVars(Tail(template), k, v)

\* the text is never blank; .trim() at the call site leaves it as it is
buildScopePrompt(target) ==
  <<Tok("common", "", 0), Tok("scope", target.kind, target.prNumber)>>
    \o (IF target.kind = "recent" THEN <<Tok("sha", target.baseSha, 0)>> ELSE <<>>)

\* the headings taken from stageId instead of stageLabel
RECURSIVE ReportsTextById(_)
ReportsTextById(reports) ==
  IF reports = <<>> THEN <<>>
  ELSE LET r == Head(reports)
           one == <<Tok("heading", r.stageId, 0), Tok("fence", "", 0)>>
                    \o Chars(Trim(r.text)) \o <<Tok("fence", "", 0)>>
       IN IF Len(reports) = 1 THEN one
          ELSE one \o <<Tok("char", "\n", 0)>> \o ReportsTextById(Tail(reports))

RECURSIVE ReportsText(_)
ReportsText(reports) ==
  IF reports = <<>> THEN <<>>
  ELSE LET r == Head(reports)
           one == <<Tok("heading", r.stageLabel, 0), Tok("fence", "", 0)>>
                    \o Chars(Trim(r.text)) \o <<Tok("fence", "", 0)>>
       IN IF Len(reports) = 1 THEN one
          ELSE one \o <<Tok("char", "\n", 0)>> \o ReportsText(Tail(reports))

buildStagePrompt(reports, target, stage, fs) ==
  IF stage.kind = "synthesize"
  THEN renderVars(loadPromptText(stage.promptName, fs), "REPORTS", ReportsText(reports))
  ELSE renderVars(loadPromptText(stage.promptName, fs), "SCOPE", buildScopePrompt(target))

\* the check of line 396 left out
IsBlankNever(prompt) == FALSE

\* !prompt.trim()
IsBlank(prompt) == \A i \in 1..Len(prompt) : prompt[i].t = "char" /\ prompt[i].s \in WS

\* ------------------------------------------------------------------ state
VARIABLES
  suiteActive, suiteTarget, suiteStageIndex, suiteReports, suiteFreshContext,
  suiteBoundaryCount, boundaryNeedsCapture,   \* the closure state, lines 326-332
  status,        \* last value given to ctx.ui.setStatus("pi-review", ...)
  hasUI,         \* ctx.hasUI of this session
  messages,      \* the session history (event.messages of "context")
  turnMsgs,      \* messages of the running agent run (event.messages of "agent_end")
  agent,         \* "idle", "ctx" (next: an LLM call) or "end" (next: agent_end)
  cmds,          \* bag of review commands suspended at an await; live: a run was
                 \* active when the command was issued
  sentLog,       \* stage indices given to pi.sendUserMessage by the run, <<>> when none is active
  lastPrompt,    \* text given to pi.sendUserMessage by the last step, <<>> if none
  view,          \* history handed to the model by the last step, <<>> if it made no LLM call
  notified,      \* ctx.ui.notify calls of the last step
  endReason,     \* reason given to endSuite by the last step, NoReason if it did not end a run
  runStart,      \* length of the history when the active run was started, 0 when none is
  completed,     \* a run of this session has ended with reason "complete"
  events         \* number of counted environment events so far

suiteVars == <<suiteActive, suiteTarget, suiteStageIndex, suiteReports, suiteFreshContext,
               suiteBoundaryCount, boundaryNeedsCapture, status>>

vars == <<suiteActive, suiteTarget, suiteStageIndex, suiteReports, suiteFreshContext,
          suiteBoundaryCount, boundaryNeedsCapture, status, hasUI, messages, turnMsgs,
          agent, cmds, sentLog, lastPrompt, view, notified, endReason, runStart, completed,
          events>>

NoStatus == [set |-> FALSE, label |-> "", i |-> 0, n |-> 0, fresh |-> FALSE]

NoReason == [kind |-> "none", name |-> ""]

Reason(kind) == [kind |-> kind, name |-> ""]

\* The closure state and what one handler run has output so far, as one
\* value the handlers below map to its successor.
Suite ==
  [active |-> suiteActive, target |-> suiteTarget, idx |-> suiteStageIndex,
   reports |-> suiteReports, fresh |-> suiteFreshContext,
   boundary |-> suiteBoundaryCount, capture |-> boundaryNeedsCapture,
   status |-> status, reason |-> NoReason, sent |-> sentLog, prompt |-> <<>>,
   notes |-> <<>>, out |-> <<>>, start |-> runStart]

SetSuite(S) ==
  /\ suiteActive' = S.active
  /\ suiteTarget' = S.target
  /\ suiteStageIndex' = S.idx
  /\ suiteReports' = S.reports
  /\ suiteFreshContext' = S.fresh
  /\ suiteBoundaryCount' = S.boundary
  /\ boundaryNeedsCapture' = S.capture
  /\ status' = S.status
  /\ endReason' = S.reason
  /\ sentLog' = S.sent
  /\ lastPrompt' = S.prompt
  /\ notified' = S.notes
  /\ runStart' = S.start
  /\ completed' = (completed \/ S.reason = Reason("complete"))

currentStage(S) == StageAt(S.idx)

notify(S, msg) == [S EXCEPT !.notes = Append(@, msg)]

\* the progress counted from 0
updateSuiteStatusZeroBased(S) ==
  IF ~S.active THEN [S EXCEPT !.status = NoStatus]
  ELSE LET stage == currentStage(S) IN
       [S EXCEPT !.status = [set |-> TRUE,
                             label |-> IF stage # NoStage THEN stage.label ELSE "?",
                             i |-> S.idx, n |-> Len(Stages), fresh |-> S.fresh]]

updateSuiteStatus(S) ==
  IF ~S.active THEN [S EXCEPT !.status = NoStatus]
  ELSE LET stage == currentStage(S) IN
       [S EXCEPT !.status = [set |-> TRUE,
                             label |-> IF stage # NoStage THEN stage.label ELSE "?",
                             i |-> S.idx + 1, n |-> Len(Stages), fresh |-> S.fresh]]

\* endSuite without line 354
endSuiteKeepIndex(S, reason) ==
  notify(updateSuiteStatus([S EXCEPT !.active = FALSE, !.target = NoTarget,
                                     !.reports = <<>>, !.boundary = -1, !.capture = FALSE,
                                     !.reason = reason, !.sent = <<>>, !.start = 0]),
         "Review suite ended")

\* endSuite without line 355
endSuiteKeepReports(S, reason) ==
  notify(updateSuiteStatus([S EXCEPT !.active = FALSE, !.target = NoTarget, !.idx = 0,
                                     !.boundary = -1, !.capture = FALSE,
                                     !.reason = reason, !.sent = <<>>, !.start = 0]),
         "Review suite ended")

\* endSuite without line 352
endSuiteStaysActive(S, reason) ==
  notify(updateSuiteStatus([S EXCEPT !.target = NoTarget, !.idx = 0,
                                     !.reports = <<>>, !.boundary = -1, !.capture = FALSE,
                                     !.reason = reason, !.sent = <<>>, !.start = 0]),
         "Review suite ended")

endSuite(S, reason) ==
  notify(updateSuiteStatus([S EXCEPT !.active = FALSE, !.target = NoTarget, !.idx = 0,
                                     !.reports = <<>>, !.boundary = -1, !.capture = FALSE,
                                     !.reason = reason, !.sent = <<>>, !.start = 0]),
         "Review suite ended")

\* the test of suiteActive left out of line 493
InputInterruptsIdleToo(S, source) == hasUI /\ source = "interactive"

\* the interrupt honoured during the review stages only
InputInterruptsReviewOnly(S, source) ==
  hasUI /\ S.active /\ source = "interactive" /\ currentStage(S).kind = "review"

\* the "input" handler's decision to end the run (lines 490-493)
InputInterrupts(S, source) == hasUI /\ S.active /\ source = "interactive"

inputHandler(S, source) ==
  IF InputInterrupts(S, source) THEN endSuite(S, Reason("user interrupted")) ELSE S

\* the interrupting input taken as handled by the extension
inputResultSwallows(S, source) ==
  IF ~hasUI THEN "continue"
  ELSE IF S.active /\ source = "interactive" THEN "handled"
  ELSE "continue"

\* the action the "input" handler returns (lines 490, 495, 498)
inputResult(S, source) ==
  IF ~hasUI THEN "continue"
  ELSE IF S.active /\ source = "interactive" THEN "continue"
  ELSE "continue"

\* pi.sendUserMessage: the host raises its "input" event with source
\* "extension" for the text and, on "continue", takes it as the next user
\* message.
sendUserMessage(S, prompt) ==
  inputHandler([S EXCEPT !.sent = Append(@, S.idx), !.prompt = prompt,
                         !.out = IF inputResult(S, "extension") = "continue"
                                 THEN <<S.idx>> ELSE <<>>],
               "extension")

sendCurrentStagePrompt(S, fs) ==
  IF S.target = NoTarget THEN endSuite(S, Reason("internal error: missing target"))
  ELSE LET stage == currentStage(S) IN
    IF stage = NoStage THEN endSuite(S, Reason("done"))
    ELSE Once(LAMBDA prompt :
      IF IsBlank(prompt)
      THEN endSuite(S, [kind |-> "missing prompt template", name |-> stage.promptName])
      ELSE sendUserMessage(updateSuiteStatus(S), prompt),
      buildStagePrompt(S.reports, S.target, stage, fs))

\* ------------------------------------------------------- "context" handler
UserMsg(id, stage) == [role |-> "user", id |-> id, stage |-> stage, label |-> ""]

AssistantMsg(id) == [role |-> "assistant", id |-> id, stage |-> -1, label |-> ""]

ToolResultMsg(id) == [role |-> "toolResult", id |-> id, stage |-> -1, label |-> ""]

\* the synthetic notice of lines 442-452; it is no message of the history
Notice(label) == [role |-> "user", id |-> 0, stage |-> -1, label |-> label]

\* for (i = length - 1; i >= 0; i--) if (messages[i].role === "user") ...
\* the 0-based position of the last user message, -1 when there is none
LastUserIdx(msgs) ==
  LET U == {i \in 1..Len(msgs) : msgs[i].role = "user"} IN
  IF U = {} THEN -1 ELSE (CHOOSE i \in U : \A j \in U : j <= i) - 1

\* the filter applied at the synthesize stage as well
FilterAppliesAnyKind(S, msgs) ==
  /\ S.active /\ S.fresh
  /\ currentStage(S) # NoStage
  /\ S.idx # 0
  /\ msgs # <<>>

\* lines 407-414: the handler gets past its early returns
FilterApplies(S, msgs) ==
  /\ S.active /\ S.fresh
  /\ currentStage(S) # NoStage /\ currentStage(S).kind = "review"
  /\ S.idx # 0
  /\ msgs # <<>>

\* lines 416-424
CaptureBoundary(S, msgs) ==
  IF S.capture
  THEN [S EXCEPT !.boundary = IF LastUserIdx(msgs) >= 0 THEN LastUserIdx(msgs) ELSE @,
                 !.capture = FALSE]
  ELSE S

\* the replacement put together without the notice of lines 442-452
AssembleNoNotice(S, msgs, lastUserIdx) ==
  SubSeq(msgs, 1, S.boundary) \o SubSeq(msgs, lastUserIdx + 1, Len(msgs))

\* lines 438-455
Assemble(S, msgs, lastUserIdx) ==
  SubSeq(msgs, 1, S.boundary) \o <<Notice(currentStage(S).label)>>
    \o SubSeq(msgs, lastUserIdx + 1, Len(msgs))

\* suite: the state after the handler; rewritten: whether it returned a
\* replacement; result: the history the host goes on with
contextHandler(S, msgs) ==
  IF ~FilterApplies(S, msgs) THEN [suite |-> S, rewritten |-> FALSE, result |-> msgs]
  ELSE LET S1 == CaptureBoundary(S, msgs)
           lastUserIdx == LastUserIdx(msgs)
       IN IF S1.boundary < 0 \/ lastUserIdx < 0 \/ S1.boundary >= lastUserIdx
          THEN [suite |-> S1, rewritten |-> FALSE, result |-> msgs]
          ELSE [suite |-> S1, rewritten |-> TRUE, result |-> Assemble(S1, msgs, lastUserIdx)]

\* ----------------------------------------------------- "agent_end" handler
\* no output is ever taken as missing
NoOutputNever(text) == FALSE

\* line 468: !text
NoOutput(text) == text = <<>>

\* no report kept of any stage
HarvestNothing(S, stage, text) == S

\* the text kept as it came, marker and all
HarvestRaw(S, stage, text) ==
  IF stage.kind = "review"
  THEN [S EXCEPT !.reports = Append(@, [stageId |-> stage.id, stageLabel |-> stage.label,
                                        text |-> text])]
  ELSE S

\* lines 473-476
Harvest(S, stage, text) ==
  IF stage.kind = "review"
  THEN Once(LAMBDA cleaned :
              [S EXCEPT !.reports = Append(@, [stageId |-> stage.id,
                                               stageLabel |-> stage.label,
                                               text |-> Trim(cleaned)])],
            RemoveAll(text, STAGE_DONE_MARKER))
  ELSE S

\* the stage index is left where it was
AdvanceNot(S) == S

\* line 479
Advance(S) == [S EXCEPT !.idx = @ + 1]

\* the test of line 481 never true
PastEndNever(S) == FALSE

\* line 481
PastEnd(S) == S.idx >= Len(Stages)

agentEndHandler(S, msgs, fs) ==
  IF ~S.active THEN S
  ELSE LET stage == currentStage(S) IN
    IF stage = NoStage THEN endSuite(S, Reason("done"))
    ELSE Once(LAMBDA text :
      IF NoOutput(text) THEN endSuite(S, Reason("aborted (no assistant output)"))
      ELSE Once(LAMBDA S2 :
        IF PastEnd(S2) THEN endSuite(S2, Reason("complete"))
        ELSE sendCurrentStagePrompt(S2, fs),
        Advance(Harvest(S, stage, text))),
      getLastAssistantText(msgs))

\* ------------------------------------------------- review command handler
\* the argument strings tried; parseArgs is given by what it returns on them
Args == {"", "7"}

RecentPicker == [kind |-> "recentPicker", prNumber |-> 0, baseSha |-> ""]

parseArgs(args) ==
  CASE args = "staged" -> Staged
    [] args = "worktree" -> Worktree
    [] args = "recent" -> RecentPicker
    [] args = "7" -> Pr(7)
    [] OTHER -> NoTarget

\* resolveTarget up to its first await on the UI: the target it returns
\* without asking, or NoTarget when it has to ask (lines 258-278)
ResolveDirect(args) ==
  LET parsed == parseArgs(args) IN
  IF parsed # NoTarget /\ parsed.kind # "recentPicker" THEN parsed
  ELSE IF ~hasUI THEN Worktree
  ELSE NoTarget

\* what resolveTarget can return once the pickers are done; NoTarget is null
UiOutcomes(args) ==
  IF parseArgs(args) = RecentPicker THEN {NoTarget} \cup {Recent(h) : h \in Shas}
  ELSE {NoTarget} \cup Targets

\* the check of line 521 left out
AlreadyRunningNever(S) == FALSE

\* line 521
AlreadyRunning(S) == S.active

\* lines 521-535
startStep(S, target, fs) ==
  IF AlreadyRunning(S)
  THEN notify(S, "A review suite is already running")
  ELSE sendCurrentStagePrompt(
         notify([S EXCEPT !.active = TRUE, !.target = target, !.idx = 0, !.reports = <<>>,
                          !.fresh = TRUE, !.boundary = -1, !.capture = TRUE, !.sent = <<>>,
                          !.start = Len(messages)],
                "Review started"),
         fs)

\* ------------------------------------------------------------ environment
TextPart(t) == [type |-> "text", text |-> t]

ToolPart == [type |-> "toolCall", text |-> <<>>]

\* the contents of assistant messages the model produces in Spec
Contents ==
  { <<ToolPart>>,
    <<TextPart(<<" ">>)>>,
    <<TextPart(<<"x">>)>>,
    <<TextPart(<<"x", "[", "]">>)>>,
    <<TextPart(<<"[", "]">>)>> }

IsToolCall(content) == \E i \in 1..Len(content) : content[i].type = "toolCall"

Sources == {"interactive", "rpc", "extension"}

TurnMsg(role, content) == [role |-> role, content |-> content]

\* The host takes the prompt of S.out, if any, as the next user message.
\* An idle agent starts a run on it; a streaming agent refuses a message
\* sent without deliverAs, and the prompt is lost.
Deliver(S, idle) ==
  IF S.out # <<>> /\ idle
  THEN /\ Len(messages) < MaxMsgs
       /\ messages' = Append(messages, UserMsg(Len(messages) + 1, S.out[1]))
       /\ turnMsgs' = <<TurnMsg("user", <<>>)>>
       /\ agent' = "ctx"
  ELSE /\ messages' = messages
       /\ turnMsgs' = IF idle THEN <<>> ELSE turnMsgs
       /\ agent' = IF idle THEN "idle" ELSE agent

\* a refusal that clears the status line
NoSuiteEffectClearsStatus ==
  /\ lastPrompt' = <<>> /\ view' = <<>> /\ endReason' = NoReason
  /\ status' = NoStatus
  /\ UNCHANGED <<suiteActive, suiteTarget, suiteStageIndex, suiteReports,
                 suiteFreshContext, suiteBoundaryCount, boundaryNeedsCapture,
                 hasUI, messages, turnMsgs, agent, sentLog, runStart, completed>>

\* a step that leaves the suite and the agent alone
NoSuiteEffect ==
  /\ lastPrompt' = <<>> /\ view' = <<>> /\ endReason' = NoReason
  /\ UNCHANGED <<suiteVars, hasUI, messages, turnMsgs, agent, sentLog, runStart, completed>>

NoSuiteStep == NoSuiteEffect /\ UNCHANGED events

Init ==
  /\ suiteActive = FALSE
  /\ suiteTarget = NoTarget
  /\ suiteStageIndex = 0
  /\ suiteReports = <<>>
  /\ suiteFreshContext = TRUE
  /\ suiteBoundaryCount = -1
  /\ boundaryNeedsCapture = FALSE
  /\ status = NoStatus
  /\ hasUI \in BOOLEAN
  /\ messages = <<>>
  /\ turnMsgs = <<>>
  /\ agent = "idle"
  /\ cmds = EmptyBag
  /\ sentLog = <<>>
  /\ lastPrompt = <<>>
  /\ view = <<>>
  /\ notified = <<>>
  /\ endReason = NoReason
  /\ runStart = 0
  /\ completed = FALSE
  /\ events = 0

\* /review <args>: the handler up to its first await (lines 506-511)
CmdIssue(args) ==
  /\ IF agent # "idle"
     THEN /\ events < MaxEvents
          /\ notified' = <<"Agent is busy; try again when idle">>
          /\ cmds' = cmds
     ELSE /\ cmds # EmptyBag => events < MaxEvents
          /\ notified' = <<>>
          /\ cmds' = cmds (+) SetToBag({[pc |-> "git", args |-> args, live |-> suiteActive]})
  /\ events' = IF agent # "idle" \/ cmds # EmptyBag THEN events + 1 ELSE events
  /\ NoSuiteEffect

\* lines 521-535 and what the host does with the prompt
DoStart(target, fs) ==
  LET S == startStep(Suite, target, fs) IN
  /\ suiteActive \/ events < MaxEvents
  /\ events' = IF suiteActive THEN events ELSE events + 1
  /\ SetSuite(S)
  /\ Deliver(S, agent = "idle")
  /\ view' = <<>>
  /\ UNCHANGED hasUI

\* `git rev-parse` has answered (lines 511-519); the handler goes on to
\* the start step when resolveTarget needs no picker
CmdGitDone(c, ok, fs) ==
  /\ c \in BagToSet(cmds) /\ c.pc = "git"
  /\ IF ~ok
     THEN /\ cmds' = cmds (-) SetToBag({c})
          /\ notified' = <<"not inside a git repository">>
          /\ NoSuiteStep
     ELSE IF ResolveDirect(c.args) = NoTarget
     THEN /\ cmds' = (cmds (-) SetToBag({c})) (+) SetToBag({[c EXCEPT !.pc = "ui"]})
          /\ notified' = <<>>
          /\ NoSuiteStep
     ELSE /\ cmds' = cmds (-) SetToBag({c})
          /\ DoStart(ResolveDirect(c.args), fs)

\* the pickers of resolveTarget are done (lines 268-308), then lines 519-535
CmdUiDone(c, target, fs) ==
  /\ c \in BagToSet(cmds) /\ c.pc = "ui"
  /\ target \in UiOutcomes(c.args)
  /\ cmds' = cmds (-) SetToBag({c})
  /\ IF target = NoTarget
     THEN /\ notified' = <<>>
          /\ NoSuiteStep
     ELSE DoStart(target, fs)

\* One LLM call of the agent loop: the "context" handler filters the
\* history, the model answers; a tool call is followed by its result.
LLMStep(content) ==
  LET r == contextHandler(Suite, messages)
      n == Len(messages)
      tool == IsToolCall(content)
  IN
  /\ agent = "ctx"
  /\ n + (IF tool THEN 2 ELSE 1) <= MaxMsgs
  /\ tool => events < MaxEvents
  /\ events' = IF tool THEN events + 1 ELSE events
  /\ SetSuite(r.suite)
  /\ view' = r.result
  /\ messages' = messages \o <<AssistantMsg(n + 1)>>
                   \o (IF tool THEN <<ToolResultMsg(n + 2)>> ELSE <<>>)
  /\ turnMsgs' = turnMsgs \o <<TurnMsg("assistant", content)>>
                   \o (IF tool THEN <<TurnMsg("toolResult", <<>>)>> ELSE <<>>)
  /\ agent' = IF tool THEN "ctx" ELSE "end"
  /\ UNCHANGED <<hasUI, cmds>>

\* The agent run is over (finished, or aborted between two LLM calls).
AgentEnd(fs) ==
  /\ agent \in {"ctx", "end"}
  /\ \E S \in {agentEndHandler(Suite, turnMsgs, fs)} :
       /\ SetSuite(S)
       /\ Deliver(S, TRUE)
  /\ view' = <<>>
  /\ UNCHANGED <<hasUI, cmds, events>>

\* New input reaches the "input" handler (lines 489-499); when it answers
\* "continue" the host takes the text as a user message: it starts an
\* agent run, or steers the running one.
Input(source) ==
  LET S == inputHandler(Suite, source)
      go == inputResult(Suite, source) = "continue"
  IN
  /\ Len(messages) < MaxMsgs
  /\ events < MaxEvents
  /\ events' = events + 1
  /\ SetSuite(S)
  /\ messages' = IF go THEN Append(messages, UserMsg(Len(messages) + 1, -1)) ELSE messages
  /\ turnMsgs' = IF ~go THEN turnMsgs
                 ELSE IF agent = "idle" THEN <<TurnMsg("user", <<>>)>>
                 ELSE Append(turnMsgs, TurnMsg("user", <<>>))
  /\ agent' = IF go THEN "ctx" ELSE agent
  /\ view' = <<>>
  /\ UNCHANGED <<hasUI, cmds>>

Next ==
  \/ \E args \in Args : CmdIssue(args)
  \/ \E c \in BagToSet(cmds), ok \in BOOLEAN, fs \in FileStates : CmdGitDone(c, ok, fs)
  \/ \E c \in BagToSet(cmds), t \in AllTargets \cup {NoTarget}, fs \in FileStates : CmdUiDone(c, t, fs)
  \/ \E content \in Contents : LLMStep(content)
  \/ \E fs \in FileStates : AgentEnd(fs)
  \/ \E source \in Sources : Input(source)

Spec == Init /\ [][Next]_vars

\* ------------------------------------------------- a prompt that is not run
\* pi.sendUserMessage returns nothing and line 402 does not wait for an
\* outcome: the host may fail to start an agent run for the prompt (no
\* model or credentials to call). The run stays active, the agent idle.
DoStartLost(target, fs) ==
  LET S == startStep(Suite, target, fs) IN
  /\ ~suiteActive /\ agent = "idle"
  /\ S.out # <<>>
  /\ SetSuite(S)
  /\ view' = <<>>
  /\ UNCHANGED <<messages, turnMsgs, agent, hasUI, events>>

CmdGitDoneLost(c, fs) ==
  /\ c \in BagToSet(cmds) /\ c.pc = "git"
  /\ ResolveDirect(c.args) # NoTarget
  /\ cmds' = cmds (-) SetToBag({c})
  /\ DoStartLost(ResolveDirect(c.args), fs)

NextLost ==
  \/ Next
  \/ \E c \in BagToSet(cmds), fs \in FileStates : CmdGitDoneLost(c, fs)

SpecLost == Init /\ [][NextLost]_vars

\* ------------------------------------------------- compiling stage prompts
\* buildStagePrompt on its own, over every target and over the templates of
\* up to MaxTmpl tokens that a prompt file can hold
TemplateToks == {Lit, Ph("SCOPE"), Ph("REPORTS")}

WideTemplates == UNION {[1..n -> TemplateToks] : n \in 0..MaxTmpl}

PromptFiles ==
  {[userExists |-> FALSE, userTmpl |-> <<>>, pkgExists |-> TRUE]}
    \cup [userExists : {TRUE}, userTmpl : WideTemplates, pkgExists : {TRUE}]

\* line 395 at stage index 0 of a run on target, once in a behaviour
Compile(target, fs) ==
  /\ lastPrompt = <<>>
  /\ lastPrompt' = buildStagePrompt(<<>>, target, StageAt(0), fs)
  /\ UNCHANGED <<suiteVars, hasUI, messages, turnMsgs, agent, cmds, sentLog, view,
                 notified, endReason, runStart, completed, events>>

NextPrompt == \E target \in AllTargets, fs \in PromptFiles : Compile(target, fs)

SpecPrompt == Init /\ [][NextPrompt]_vars

\* ------------------------------------------------- PR numbers from text
\* The texts a user can type as the argument of /review or into the
\* "PR number" input; ECMAScript numbers are kept as decimal fractions
\* m / 10^k, or NaN.
ArgChars == {"#", "0", "7", ".", " "}

Digits == {"0", "7"}

ArgTexts == UNION {[1..n -> ArgChars] : n \in 0..MaxArg}

NaN == [nan |-> TRUE, m |-> 0, k |-> 0]

Num(m, k) == [nan |-> FALSE, m |-> m, k |-> k]

RECURSIVE Pow10(_)
Pow10(k) == IF k = 0 THEN 1 ELSE 10 * Pow10(k - 1)

RECURSIVE DigitsValue(_)
DigitsValue(ds) ==
  IF ds = <<>> THEN 0
  ELSE 10 * DigitsValue(SubSeq(ds, 1, Len(ds) - 1)) + (IF ds[Len(ds)] = "7" THEN 7 ELSE 0)

AllDigits(s) == \A i \in 1..Len(s) : s[i] \in Digits

\* Number(string): StringToNumber over these characters. White space around
\* is dropped, the empty text is 0, and the rest has to be a decimal
\* literal: digits, digits "." digits (either side may be empty, not both).
Number(s) ==
  LET t == Trim(s)
      dots == {i \in 1..Len(t) : t[i] = "."}
  IN IF t = <<>> THEN Num(0, 0)
     ELSE IF dots = {} THEN (IF AllDigits(t) THEN Num(DigitsValue(t), 0) ELSE NaN)
     ELSE IF Cardinality(dots) > 1 THEN NaN
     ELSE LET d == CHOOSE i \in dots : TRUE
              whole == SubSeq(t, 1, d - 1)
              frac == SubSeq(t, d + 1, Len(t))
          IN IF AllDigits(whole) /\ AllDigits(frac) /\ whole \o frac # <<>>
             THEN Num(DigitsValue(whole \o frac), Len(frac))
             ELSE NaN

\* String.prototype.replace(/^#/, "")
DropHash(s) == IF s # <<>> /\ Head(s) = "#" THEN Tail(s) ELSE s

PrTarget(n) == [kind |-> "pr", prNumber |-> n, baseSha |-> ""]

\* parseArgs on a text of ArgChars: lines 34-35 and 51-52 (none of the
\* words of lines 42-46 can be written with these characters)
parseArgsText(argsRaw) ==
  LET args == Trim(argsRaw)
      m1 == DropHash(args)
  IN IF args = <<>> THEN NoTarget
     ELSE IF m1 # <<>> /\ AllDigits(m1) THEN PrTarget(Number(m1))
     ELSE NoTarget

\* lines 297-304: the target made of the text typed into "PR number", or
\* NoTarget when the loop goes round again
promptPrNumber(input) ==
  IF input = <<>> THEN NoTarget
  ELSE LET prNumber == Number(DropHash(Trim(input))) IN
       IF prNumber.nan \/ prNumber.m <= 0 THEN NoTarget
       ELSE PrTarget(prNumber)

\* the user has typed text as the argument of /review ("git") or is asked
\* for the PR number ("ui")
TypeText(text, pc) ==
  /\ cmds = EmptyBag
  /\ pc = "ui" => hasUI
  /\ cmds' = SetToBag({[pc |-> pc, args |-> text, live |-> FALSE]})
  /\ UNCHANGED <<suiteVars, hasUI, messages, turnMsgs, agent, sentLog, lastPrompt, view,
                 notified, endReason, runStart, completed, events>>

\* the text is turned into the target of line 519
ResolveText(c) ==
  /\ c \in BagToSet(cmds) /\ c.pc \in {"git", "ui"}
  /\ cmds' = SetToBag({[pc |-> "resolved", args |-> c.args, live |-> FALSE,
                        from |-> c.pc,
                        target |-> IF c.pc = "git" THEN parseArgsText(c.args)
                                   ELSE promptPrNumber(c.args)]})
  /\ UNCHANGED <<suiteVars, hasUI, messages, turnMsgs, agent, sentLog, lastPrompt, view,
                 notified, endReason, runStart, completed, events>>

NextTarget ==
  \/ \E text \in ArgTexts, pc \in {"git", "ui"} : TypeText(text, pc)
  \/ \E c \in BagToSet(cmds) : ResolveText(c)

SpecTarget == Init /\ [][NextTarget]_vars


\* ================================================================ claims
\* the steps in which a review command reaches line 521 with target t
StartStepTaken(c, t, fs) ==
  \/ CmdGitDone(c, TRUE, fs) /\ ResolveDirect(c.args) = t /\ t # NoTarget
  \/ CmdUiDone(c, t, fs) /\ t # NoTarget

\* the text the agent_end handler would extract in this state
ProducedText == getLastAssistantText(turnMsgs)

\* the stage of the last user message of the history, -2 if there is none
LastUserStage ==
  IF LastUserIdx(messages) < 0 THEN -2 ELSE messages[LastUserIdx(messages) + 1].stage

Headings(prompt) ==
  LET hs == SelectSeq(prompt, LAMBDA tok : tok.t = "heading") IN
  [i \in 1..Len(hs) |-> hs[i].s]

HasPlaceholder(template, k) == \E i \in 1..Len(template) : template[i] = Ph(k)

\* ---- C1
\* C1: the stage prompts a run has given to pi.sendUserMessage are, in
\* order, stages 0, 1, ... of the pipeline, one prompt per stage up to the
\* current one, and the Synthesis prompt is out only when the reports of
\* Overall, Linus and Staff are held.
T_C1 ==
  /\ Len(sentLog) <= Len(Stages)
  /\ \A i \in 1..Len(sentLog) : sentLog[i] = i - 1
  /\ suiteActive => Len(sentLog) = suiteStageIndex + 1
  /\ Len(sentLog) = Len(Stages) =>
       /\ Len(suiteReports) = 3
       /\ \A i \in 1..3 : suiteReports[i].stageId = Stages[i].id

W_C1 == suiteActive /\ sentLog = <<0, 1, 2, 3>> /\ LastUserStage = 3
\* ---- C2
\* the run was started on an idle agent and no text but its own stage
\* prompts has come in since
NormalRun ==
  LET us == SelectSeq(SubSeq(messages, runStart + 1, Len(messages)),
                      LAMBDA m : m.role = "user")
  IN /\ Len(us) = suiteStageIndex + 1
     /\ \A i \in 1..Len(us) : us[i].stage = i - 1

\* C2: at every LLM call of a review stage after the first, in a run that
\* went the normal way, the model is handed the pre-suite history, one
\* notice, and the history from the current stage's prompt on: no prompt
\* and no answer of an earlier stage of the run.
X_C2 ==
  [][\A content \in Contents :
       (/\ suiteActive /\ suiteFreshContext /\ suiteStageIndex > 0
        /\ StageAt(suiteStageIndex).kind = "review"
        /\ NormalRun
        /\ LLMStep(content))
       => view' = SubSeq(messages, 1, runStart)
                    \o <<Notice(StageAt(suiteStageIndex).label)>>
                    \o SubSeq(messages, LastUserIdx(messages) + 1, Len(messages))]_vars

\* ---- C3
\* C3: a review command that reaches the start step while a run is active
\* changes nothing of the run, sends no prompt and shows one warning.
T_C3 ==
  [][\A c \in BagToSet(cmds), t \in AllTargets, fs \in FileStates :
       (suiteActive /\ StartStepTaken(c, t, fs))
       => /\ UNCHANGED <<suiteVars, messages, turnMsgs, agent, sentLog, runStart>>
          /\ lastPrompt' = <<>>
          /\ endReason' = NoReason
          /\ notified' = <<"A review suite is already running">>]_vars

W_C3 ==
  /\ suiteActive /\ suiteStageIndex = 1 /\ Len(suiteReports) = 1
  /\ notified = <<"A review suite is already running">>

\* ---- C4
\* C4: a turn that completes with empty or blank text while a run is
\* active ends the run as aborted, at any stage; no report is kept, no
\* prompt is sent.
T_C4 ==
  [][\A fs \in FileStates :
       (suiteActive /\ ProducedText = <<>> /\ AgentEnd(fs))
       => /\ ~suiteActive'
          /\ endReason' = Reason("aborted (no assistant output)")
          /\ suiteReports' = <<>>
          /\ sentLog' = <<>> /\ lastPrompt' = <<>>
          /\ messages' = messages /\ agent' = "idle"]_vars

W_C4 ==
  /\ ~suiteActive /\ endReason = Reason("aborted (no assistant output)")
  /\ LastUserStage = 3

\* ---- C5
\* C5 as stated: interactive input while a run is active always ends the
\* run as interrupted by the user.
X_C5 ==
  [][(suiteActive /\ Input("interactive"))
     => (~suiteActive' /\ endReason' = Reason("user interrupted"))]_vars

\* C5: in a session with a UI, interactive input while a run is active
\* ends the run as interrupted by the user, at any stage.
T_C5 ==
  [][(hasUI /\ suiteActive /\ Input("interactive"))
     => (~suiteActive' /\ endReason' = Reason("user interrupted"))]_vars

W_C5 ==
  /\ hasUI /\ ~suiteActive /\ endReason = Reason("user interrupted")
  /\ LastUserStage = -1
  /\ \E i \in 1..Len(messages) : messages[i].stage = 3

\* ---- C6
InactiveShape ==
  /\ suiteTarget = NoTarget
  /\ suiteStageIndex = 0
  /\ suiteReports = <<>>
  /\ suiteBoundaryCount = -1
  /\ boundaryNeedsCapture = FALSE
  /\ status = NoStatus

\* C6: a step that ends the run leaves it inactive, and an inactive run
\* has the shape it had at construction.
T_C6 ==
  /\ endReason # NoReason => ~suiteActive
  /\ ~suiteActive => InactiveShape

W_C6 ==
  /\ ~suiteActive /\ endReason # NoReason /\ InactiveShape
  /\ \E i \in 1..Len(messages) : messages[i].stage = 1

\* ---- C7
ThirdCompletion(fs) ==
  suiteActive /\ suiteStageIndex = 2 /\ ProducedText # <<>> /\ AgentEnd(fs)

SynthesisSent ==
  /\ Len(suiteReports) = 3
  /\ suiteStageIndex = 3
  /\ Headings(lastPrompt) = <<"Overall", "Linus", "Staff">>

\* C7 as stated: the third completion with output leaves three reports,
\* stage index 3 and a fourth prompt with the three labels as headings.
X_C7 == [][\A fs \in FileStates : ThirdCompletion(fs) => SynthesisSent']_vars

\* C7: the same, when the synthesize template that is loaded has the
\* {{REPORTS}} placeholder.
T_C7 ==
  [][\A fs \in FileStates :
       (/\ ThirdCompletion(fs)
        /\ HasPlaceholder(loadPromptText(Stages[4].promptName, fs), "REPORTS"))
       => SynthesisSent']_vars

W_C7 ==
  /\ suiteActive /\ suiteStageIndex = 3 /\ Len(suiteReports) = 3
  /\ Headings(lastPrompt) = <<"Overall", "Linus", "Staff">>

\* ---- C8
\* the closure state as the extension's entry point leaves it
FreshSuite ==
  [Suite EXCEPT !.active = FALSE, !.target = NoTarget, !.idx = 0, !.reports = <<>>,
                !.fresh = TRUE, !.boundary = -1, !.capture = FALSE, !.status = NoStatus,
                !.sent = <<>>]

SuiteVarsOf(S) ==
  <<S.active, S.target, S.idx, S.reports, S.fresh, S.boundary, S.capture, S.status>>

\* C8: the completion of the synthesize turn with output ends the run as
\* complete and drops the reports; a start with no run active gives the
\* state the first start of the session gives, at stage 0 with no
\* reports, no boundary and the boundary capture pending.
T_C8 ==
  [][/\ \A fs \in FileStates :
          (suiteActive /\ suiteStageIndex = 3 /\ ProducedText # <<>> /\ AgentEnd(fs))
          => (~suiteActive' /\ endReason' = Reason("complete") /\ suiteReports' = <<>>)
     /\ \A c \in BagToSet(cmds), t \in AllTargets, fs \in FileStates :
          (~suiteActive /\ StartStepTaken(c, t, fs))
          => /\ suiteVars' = SuiteVarsOf(startStep(FreshSuite, t, fs))
             /\ suiteActive' => /\ suiteStageIndex' = 0 /\ suiteReports' = <<>>
                                /\ suiteBoundaryCount' = -1 /\ boundaryNeedsCapture'
                                /\ sentLog' = <<0>>]_vars

W_C8 ==
  /\ completed /\ suiteActive /\ suiteStageIndex = 0 /\ suiteReports = <<>>
  /\ suiteBoundaryCount = -1 /\ boundaryNeedsCapture /\ sentLog = <<0>>

\* ---- C9
MissingTemplate(k) == [kind |-> "missing prompt template", name |-> StageAt(k).promptName]

\* C9: when the template of the stage to send resolves to no text, at the
\* start or after an advance, the run ends with the template named, and
\* nothing is sent.
T_C9 ==
  [][/\ \A c \in BagToSet(cmds), t \in AllTargets, fs \in FileStates :
          (/\ ~suiteActive /\ StartStepTaken(c, t, fs)
           /\ loadPromptText(StageAt(0).promptName, fs) = <<>>)
          => /\ ~suiteActive' /\ endReason' = MissingTemplate(0)
             /\ sentLog' = <<>> /\ messages' = messages /\ agent' = agent
     /\ \A fs \in FileStates :
          (/\ suiteActive /\ ProducedText # <<>> /\ suiteStageIndex < 3 /\ AgentEnd(fs)
           /\ loadPromptText(StageAt(suiteStageIndex + 1).promptName, fs) = <<>>)
          => /\ ~suiteActive' /\ endReason' = MissingTemplate(suiteStageIndex + 1)
             /\ sentLog' = <<>> /\ messages' = messages /\ agent' = "idle"]_vars

W_C9 == ~suiteActive /\ endReason = MissingTemplate(1) /\ LastUserStage = 0

\* ---- C10
\* C10: the stage index is within 0..4 and is never 4 while a run is
\* active; the step that takes the index past the last stage ends the run.
T_C10 ==
  /\ [](suiteStageIndex \in 0..Len(Stages) /\ ~(suiteActive /\ suiteStageIndex = Len(Stages)))
  /\ [][\A fs \in FileStates :
          (suiteActive /\ suiteStageIndex = 3 /\ ProducedText # <<>> /\ AgentEnd(fs))
          => ~suiteActive']_vars

W_C10 ==
  /\ ~suiteActive /\ endReason = Reason("complete") /\ suiteStageIndex = 0
  /\ LastUserStage = 3

\* ---- C11
\* C11 as stated: the first LLM call of a run made while the capture is
\* pending sets the boundary to the position of the most recent user
\* message and the capture is done; once set, the boundary keeps its value
\* for as long as the run goes on.
X_C11 ==
  [][/\ \A content \in Contents :
          (suiteActive /\ boundaryNeedsCapture /\ LLMStep(content))
          => /\ suiteBoundaryCount' = LastUserIdx(messages)
             /\ ~boundaryNeedsCapture'
     /\ (suiteActive /\ suiteBoundaryCount >= 0 /\ suiteActive')
          => suiteBoundaryCount' = suiteBoundaryCount]_vars

\* ---- C12
\* the "context" handler gets past its early returns of lines 407-411
FilterStage ==
  /\ suiteActive /\ suiteFreshContext
  /\ StageAt(suiteStageIndex).kind = "review"
  /\ suiteStageIndex > 0

\* C12: at an LLM call made with no run active, at stage 0 or at the
\* synthesize stage, the model is handed the history as it is and the
\* handler changes nothing.
T_C12 ==
  [][\A content \in Contents :
       (~FilterStage /\ LLMStep(content))
       => (view' = messages /\ UNCHANGED suiteVars)]_vars

\* an LLM call of the synthesize stage, where the boundary and the last
\* user message are such that a review stage would have got a rewritten
\* history
W_C12 ==
  /\ suiteActive /\ suiteStageIndex = 3
  /\ view # <<>> /\ view = SubSeq(messages, 1, Len(view))
  /\ suiteBoundaryCount >= 0 /\ LastUserIdx(view) > suiteBoundaryCount

\* ---- C13
\* C13 as stated: a review command issued while a run was active never
\* gets to start a run, whatever happens to the active run while the
\* command is suspended.
X_C13 ==
  [][\A c \in BagToSet(cmds), t \in AllTargets, fs \in FileStates :
       (c.live /\ (StartStepTaken(c, t, fs) \/ CmdGitDoneLost(c, fs)))
       => ~(~suiteActive /\ suiteActive')]_vars

\* ---- C14
\* C14: between any two steps the status is set exactly when a run is
\* active, and then it shows the label of the current stage, the stage
\* index plus one, 4 as the number of stages and the freshness suffix.
T_C14 ==
  /\ status.set <=> suiteActive
  /\ suiteActive =>
       status = [set |-> TRUE, label |-> Stages[suiteStageIndex + 1].label,
                 i |-> suiteStageIndex + 1, n |-> 4, fresh |-> suiteFreshContext]
  /\ (suiteActive /\ sentLog = <<0>>) => (status.label = "Overall" /\ status.i = 1)

W_C14 ==
  /\ suiteActive /\ suiteStageIndex = 2
  /\ status = [set |-> TRUE, label |-> "Staff", i |-> 3, n |-> 4, fresh |-> TRUE]

\* ---- C15
\* C15: the "input" handler answers "continue" to every input, whatever
\* its source, with or without a UI, with or without a run, and the text
\* goes on as a user message, also when the input has ended the run.
T_C15 ==
  /\ [](\A source \in Sources : inputResult(Suite, source) = "continue")
  /\ [][\A source \in Sources :
          Input(source)
          => /\ messages' = Append(messages, UserMsg(Len(messages) + 1, -1))
             /\ agent' = "ctx"]_vars

\* the input that has ended a run has become the last message of the
\* history and the agent runs on it
W_C15 ==
  /\ ~suiteActive /\ endReason = Reason("user interrupted")
  /\ messages # <<>> /\ messages[Len(messages)] = UserMsg(Len(messages), -1)
  /\ agent = "ctx"

\* ---- C16
\* C16: input that arrives while no run is active leaves the closure state
\* and the status as they are, ends nothing and notifies nothing.
T_C16 ==
  [][\A source \in Sources :
       (~suiteActive /\ Input(source))
       => /\ UNCHANGED suiteVars
          /\ endReason' = NoReason
          /\ notified' = <<>>]_vars

\* interactive input in a session with a UI and no run: the agent runs on
\* it and nothing of the suite has moved
W_C16 ==
  /\ hasUI /\ ~suiteActive /\ endReason = NoReason /\ notified = <<>>
  /\ messages # <<>> /\ messages[Len(messages)] = UserMsg(Len(messages), -1)
  /\ agent = "ctx" /\ Len(turnMsgs) = 1
  /\ InactiveShape

\* ---- C17
NoPlaceholderLeft(prompt) ==
  ~HasPlaceholder(prompt, "SCOPE") /\ ~HasPlaceholder(prompt, "REPORTS")

\* C17 as stated: the prompt compiled for stage 0 has neither {{SCOPE}}
\* nor {{REPORTS}} in it, for every target.
X_C17 ==
  [][\A target \in AllTargets, fs \in PromptFiles :
       Compile(target, fs) => NoPlaceholderLeft(lastPrompt')]_vars

\* C17: the same, when the template that is loaded for stage 0 has no
\* {{REPORTS}} in it; {{SCOPE}} is substituted wherever it stands.
T_C17 ==
  [][\A target \in AllTargets, fs \in PromptFiles :
       (/\ Compile(target, fs)
        /\ ~HasPlaceholder(loadPromptText(StageAt(0).promptName, fs), "REPORTS"))
       => NoPlaceholderLeft(lastPrompt')]_vars

\* the packaged template compiled for a range of recent commits
W_C17 ==
  /\ lastPrompt = buildScopePrompt(Recent("abc")) \o <<Lit>>
  /\ NoPlaceholderLeft(lastPrompt)

\* ---- C18
\* the report the handler makes of the text of the turn
ReportOf(stage, text) ==
  [stageId |-> stage.id, stageLabel |-> stage.label,
   text |-> Trim(RemoveAll(text, STAGE_DONE_MARKER))]

\* lines 473-479 on the current state: one report more at a review stage,
\* none at the synthesize stage, the index one up
HarvestAdvances ==
  LET stage == StageAt(suiteStageIndex)
      S2 == Advance(Harvest(Suite, stage, ProducedText))
  IN /\ S2.idx = suiteStageIndex + 1
     /\ stage.kind = "review" => S2.reports = Append(suiteReports, ReportOf(stage, ProducedText))
     /\ stage.kind = "synthesize" => S2.reports = suiteReports
     /\ ProducedText = <<"x", "[", "]">> => ReportOf(stage, ProducedText).text = <<"x">>
     /\ ProducedText = <<"x">> => ReportOf(stage, ProducedText).text = <<"x">>

\* the step is one a turn can end with: what AgentEnd leaves alone is
\* left alone (tested before the handler is computed)
EndsTurn == agent # "idle" /\ view' = <<>> /\ events' = events /\ cmds' = cmds

\* a turn of a run ends with text at a stage that has a successor
CompletionBeforeEnd(fs) ==
  /\ EndsTurn
  /\ suiteActive /\ suiteStageIndex < Len(Stages) - 1 /\ ProducedText # <<>>
  /\ AgentEnd(fs)

\* the report is kept, the index is one up and the prompt of the new
\* current stage, and no other, is sent
OneReportOnePrompt(fs) ==
  /\ suiteReports' = Append(suiteReports, ReportOf(StageAt(suiteStageIndex), ProducedText))
  /\ suiteStageIndex' = suiteStageIndex + 1
  /\ sentLog' = Append(sentLog, suiteStageIndex + 1)
  /\ lastPrompt' = buildStagePrompt(suiteReports', suiteTarget, StageAt(suiteStageIndex + 1), fs)
  /\ lastPrompt' # <<>>

\* C18 as stated: every completion with text at a stage that is not the
\* last leaves one report more, the index one up and one prompt sent.
X_C18 ==
  [][\A fs \in FileStates : CompletionBeforeEnd(fs) => OneReportOnePrompt(fs)]_vars

\* C18: on a completion with text the handler appends one report at a
\* review stage (marker removed, trimmed) and none at the synthesize stage
\* and takes the index one up; when the template of the next stage
\* resolves to text, the state after the handler has the report, the new
\* index and that stage's prompt sent; past the last stage nothing is sent.
T_C18 ==
  /\ []((suiteActive /\ ProducedText # <<>>) => HarvestAdvances)
  /\ [][\A fs \in FileStates :
          /\ (/\ CompletionBeforeEnd(fs)
              /\ ~IsBlank(buildStagePrompt(
                            Append(suiteReports, ReportOf(StageAt(suiteStageIndex), ProducedText)),
                            suiteTarget, StageAt(suiteStageIndex + 1), fs)))
             => OneReportOnePrompt(fs)
          /\ (/\ EndsTurn
              /\ suiteActive /\ suiteStageIndex = Len(Stages) - 1 /\ ProducedText # <<>>
              /\ AgentEnd(fs))
             => (lastPrompt' = <<>> /\ sentLog' = <<>>)]_vars

\* the Linus prompt is out after an Overall turn whose text, the marker
\* apart, was x
W_C18 ==
  /\ suiteActive /\ suiteStageIndex = 1 /\ sentLog = <<0, 1>> /\ lastPrompt # <<>>
  /\ suiteReports = <<[stageId |-> "overall", stageLabel |-> "Overall", text |-> <<"x">>]>>
  /\ turnMsgs = <<TurnMsg("user", <<>>)>>

\* ---- C19
\* the history cut as C19 has it: b is the boundary, p the position of the
\* most recent user message, both 0-based
CutAt(msgs, b, p, label) ==
  SubSeq(msgs, 1, b) \o <<Notice(label)>> \o SubSeq(msgs, p + 1, Len(msgs))

\* C19: at an LLM call that the filter handles, with b the boundary as the
\* handler leaves it and p the position of the most recent user message,
\* the model is handed the history unchanged when b is unset or p is not
\* after b, and else the messages before b, one notice with the label of
\* the current stage and the messages from p on; the history itself keeps
\* every message.
T_C19 ==
  [][\A content \in Contents :
       (FilterStage /\ LLMStep(content))
       => LET b == suiteBoundaryCount'
              p == LastUserIdx(messages)
          IN /\ view' = IF b < 0 \/ p <= b THEN messages
                        ELSE CutAt(messages, b, p, StageAt(suiteStageIndex).label)
             /\ SubSeq(messages', 1, Len(messages)) = messages]_vars

\* a rewritten view of the Staff stage: shorter than the history by more
\* than the notice adds
W_C19 ==
  /\ suiteActive /\ suiteStageIndex = 2 /\ agent = "end"
  /\ \E i \in 1..Len(view) : view[i] = Notice("Staff")
  /\ Len(view) < Len(messages) - 1

\* ---- C20
\* C20 as stated: at every LLM call that the filter handles, the most
\* recent user message of the history is the prompt of the current stage,
\* and the view handed to the model holds that prompt.
X_C20 ==
  [][\A content \in Contents :
       (FilterStage /\ LLMStep(content))
       => /\ LastUserStage = suiteStageIndex
          /\ \E i \in 1..Len(view') : view'[i].stage = suiteStageIndex]_vars

\* ---- C21
Min(a, b) == IF a <= b THEN a ELSE b

\* C21: while a run is active, reports holds one entry for each review
\* stage before the current one, in pipeline order, each with the id and
\* the label of its stage, three at most; a completion of the synthesize
\* stage adds none.
T_C21 ==
  suiteActive =>
    /\ Len(suiteReports) = Min(suiteStageIndex, 3)
    /\ \A i \in 1..Len(suiteReports) :
         /\ suiteReports[i].stageId = Stages[i].id
         /\ suiteReports[i].stageLabel = Stages[i].label
         /\ Stages[i].kind = "review"
    /\ suiteStageIndex = 3 =>
         Harvest(Suite, StageAt(3), <<"x">>).reports = suiteReports

\* the synthesize turn has answered and the three reports are held
W_C21 ==
  /\ suiteActive /\ suiteStageIndex = 3 /\ agent = "end"
  /\ Len(suiteReports) = 3 /\ ProducedText # <<>>

\* ---- C22
\* the message of the history that the running agent turn was started on:
\* turnMsgs are the last messages of the history
TurnStart == messages[Len(messages) - Len(turnMsgs) + 1]

\* C22 as stated: every agent_end handled while a run is active ends the
\* agent turn that the prompt of the current stage started.
X_C22 ==
  [][\A fs \in FileStates :
       (EndsTurn /\ suiteActive /\ AgentEnd(fs))
       => /\ TurnStart.role = "user"
          /\ TurnStart.stage = suiteStageIndex]_vars

\* ---- C23
\* every prompt the extension emits is followed by the end of an agent turn
Fairness == WF_vars(\E fs \in FileStates : AgentEnd(fs))

SpecFair == Spec /\ Fairness

\* a run is active and its current stage has had its prompt emitted
PromptOutstanding ==
  /\ sentLog # <<>>
  /\ sentLog[Len(sentLog)] = suiteStageIndex

\* an agent_end handled while a run is active moves the run one stage on or
\* ends it, and no other step of an active run moves the stage
CompletionsCounted ==
  [][(suiteActive /\ suiteActive')
       => IF EndsTurn /\ \E fs \in FileStates : AgentEnd(fs)
          THEN suiteStageIndex' = suiteStageIndex + 1
          ELSE suiteStageIndex' = suiteStageIndex]_vars

\* C23: when every emitted prompt is followed by an agent_end, a started run
\* becomes inactive; it does so after at most 4 agent_end events (each one
\* moves it one stage on through stages 0..3, or ends it); and an active run
\* always has the prompt of its current stage emitted.
T_C23 ==
  /\ suiteActive ~> ~suiteActive
  /\ [](suiteActive => suiteStageIndex \in 0..3 /\ PromptOutstanding)
  /\ CompletionsCounted

W_C23 ==
  /\ completed /\ ~suiteActive /\ agent = "idle"
  /\ endReason = Reason("complete")


Rejected ==
  \/ \E args \in Args : agent # "idle" /\ CmdIssue(args)
  \/ \E c \in BagToSet(cmds), fs \in FileStates : CmdGitDone(c, FALSE, fs)
  \/ \E c \in BagToSet(cmds), fs \in FileStates : CmdUiDone(c, NoTarget, fs)

\* C25: a review command rejected before the start step (agent busy, no git
\* repository, selection cancelled) leaves active, target, stage index,
\* reports, the boundary bookkeeping and the status as they were, with or
\* without a run active, and emits no prompt.
T_C25 ==
  [][Rejected
       => /\ UNCHANGED <<suiteActive, suiteTarget, suiteStageIndex, suiteReports,
                         suiteFreshContext, suiteBoundaryCount, boundaryNeedsCapture,
                         status>>
          /\ lastPrompt' = <<>> /\ sentLog' = sentLog
          /\ messages' = messages]_vars

\* a command is refused for the busy agent in the middle of a run
W_C25 ==
  /\ suiteActive /\ suiteStageIndex = 1 /\ agent = "ctx"
  /\ notified = <<"Agent is busy; try again when idle">>

\* ---- C26
PositiveInteger(n) == ~n.nan /\ n.m > 0 /\ n.m % Pow10(n.k) = 0

\* C26 as stated: every target of kind pr that target resolution produces,
\* from the argument shorthand or from the PR-number prompt, carries a
\* positive integer.
X_C26 ==
  \A c \in BagToSet(cmds) :
    (c.pc = "resolved" /\ c.target.kind = "pr") => PositiveInteger(c.target.prNumber)

\* ---- C27
\* the end notifications among the notifications of one step
EndNotes(ns) == Cardinality({i \in DOMAIN ns : ns[i] = "Review suite ended"})

EndReasons ==
  {"complete", "aborted (no assistant output)", "missing prompt template",
   "user interrupted"}

\* C27: after every step, an active run has its target set and a stage
\* descriptor at its index; a run never ends with reason "done" or "internal
\* error: missing target" but with one of complete, aborted (no output),
\* missing prompt template, user interrupted; and a step notifies the end
\* once when it ends a run (a run that was active, or one the start step
\* gives up for its missing template), and never otherwise.
T_C27 ==
  [][/\ suiteActive' => (suiteTarget' # NoTarget /\ StageAt(suiteStageIndex') # NoStage)
     /\ endReason' # NoReason => endReason'.kind \in EndReasons
     /\ EndNotes(notified') = (IF endReason' # NoReason THEN 1 ELSE 0)
     /\ (suiteActive /\ ~suiteActive') => endReason' # NoReason
     /\ endReason' # NoReason
          => /\ ~suiteActive'
             /\ suiteActive \/ endReason'.kind = "missing prompt template"]_vars

\* a run has been ended at a later stage for its missing template, with
\* the one notification
W_C27 ==
  /\ ~suiteActive /\ endReason.kind = "missing prompt template"
  /\ endReason.name = "review-linus"
  /\ EndNotes(notified) = 1

====
